---- MODULE Spec2Model ----
(***************************************************************************)
(* Model of bb84/cascade/shuffle.py: class Shuffle, a reordering view over *)
(* a Key.  A Shuffle holds a reference to a key and a dict that maps each  *)
(* shuffle index to a key index; bits are read and written through the     *)
(* dict.  The class attribute Shuffle._random is the isolated generator    *)
(* that SHUFFLE_RANDOM constructions draw from.                            *)
(*                                                                         *)
(* Modelled Python: assertions enabled, and random.shuffle(x, random) as   *)
(* it is defined up to Python 3.10 (the two-argument form the code calls): *)
(*     for i in reversed(range(1, len(x))):                                *)
(*         j = int(random() * (i + 1)); x[i], x[j] = x[j], x[i]            *)
(***************************************************************************)
EXTENDS Integers, Sequences, FiniteSets, TLC

\* Bounds of the model.
MaxSize == 2
MaxSeed == 1
RngStates == 4

\* Shuffle.SHUFFLE_NONE and Shuffle.SHUFFLE_RANDOM.
SHUFFLE_NONE == 0
SHUFFLE_RANDOM == 1

KeyIds == {1}
ViewIds == {1, 2}
\* What a caller may pass as key: a Key, or 0 for something that is no Key.
KeyArgs == KeyIds \cup {0}
\* What a caller may pass as algorithm; the last one is not a valid algorithm.
AlgorithmArgs == {SHUFFLE_NONE, SHUFFLE_RANDOM, SHUFFLE_RANDOM + 1}
\* What a caller may pass as index and as bit value.
IndexArgs == (0 - 1)..MaxSize
ValueArgs == 0..2
Seeds == 0..MaxSeed

VARIABLES keys, views, rng, result

vars == <<keys, views, rng, result>>

(***************************************************************************)
(* Key (bb84.cascade.key, not part of the source given): a fixed-length    *)
(* sequence of bits addressed by a zero-based position.                    *)
(***************************************************************************)
KeyValues == UNION {[size : {n}, bits : [0..(n - 1) -> {0, 1}]] : n \in 0..MaxSize}

KeyGetBit(key, position) == key.bits[position]

KeySetBit(key, position, value) == [key EXCEPT !.bits[position] = value]

KeyFlipBit(key, position) == [key EXCEPT !.bits[position] = 1 - @]

(***************************************************************************)
(* What a call hands back to its caller: None, an int, a str, or an        *)
(* exception.                                                              *)
(***************************************************************************)
ReturnNone(op) == [op |-> op, kind |-> "none", int |-> 0, str |-> ""]

ReturnInt(op, n) == [op |-> op, kind |-> "int", int |-> n, str |-> ""]

ReturnStr(op, s) == [op |-> op, kind |-> "str", int |-> 0, str |-> s]

Raise(op, exception) == [op |-> op, kind |-> exception, int |-> 0, str |-> ""]

\* str(n) for the small non-negative ints that occur.
IntStr(n) == <<"0", "1", "2", "3", "4", "5", "6", "7", "8", "9">>[n + 1]

(***************************************************************************)
(* Shuffle._random.  A random.Random is a deterministic generator: its     *)
(* state after Random(seed) is a function of seed, and each random()       *)
(* returns a float in [0, 1) and advances the state.  The model keeps a    *)
(* state in 0..RngStates-1 and random() returns state / RngStates.  A      *)
(* generator seeded from system entropy (Random(), Random(None)) has an    *)
(* unknown state: each of its draws may be any value.                      *)
(* fresh and seed record history: the generator was seeded with seed and   *)
(* has produced no draw since.                                             *)
(***************************************************************************)
EntropyRng == [entropy |-> TRUE, state |-> 0, fresh |-> FALSE, seed |-> 0]

\* A set_random_seed that ignores its argument: random.Random().
SeededRngIgnoringSeed(seed) ==
    {[entropy |-> FALSE, state |-> state, fresh |-> TRUE, seed |-> seed] :
        state \in 0..(RngStates - 1)}

\* The generator random.Random(seed) builds.
SeededRng(seed) ==
    {[entropy |-> FALSE, state |-> (2 * seed + 1) % RngStates, fresh |-> TRUE,
      seed |-> seed]}

RngNext(state) == (5 * state + 3) % RngStates

RECURSIVE RngStream(_, _)
\* The next count draws of a seeded generator in the given state.
RngStream(state, count) ==
    IF count = 0 THEN <<>> ELSE <<state>> \o RngStream(RngNext(state), count - 1)

RECURSIVE RngAdvance(_, _)
RngAdvance(state, count) ==
    IF count = 0 THEN state ELSE RngAdvance(RngNext(state), count - 1)

\* The sequences of count draws the generator r can produce.
RngDraws(r, count) ==
    IF r.entropy THEN [1..count -> 0..(RngStates - 1)]
    ELSE {RngStream(r.state, count)}

\* The generator after count draws.
RngAfter(r, count) ==
    IF r.entropy \/ count = 0 THEN r
    ELSE [entropy |-> FALSE, state |-> RngAdvance(r.state, count),
          fresh |-> FALSE, seed |-> 0]

(***************************************************************************)
(* Shuffle.__init__                                                        *)
(***************************************************************************)
\* for index in range(0, key.size): self._shuffle_index_to_key_index[index] = index
IdentityMapping(size) == [index \in 0..(size - 1) |-> index]

\* x[i] = x[j]; x[j] = x[i]
SwapInSequence(x, i, j) == [x EXCEPT ![i] = x[j]]

\* x[i], x[j] = x[j], x[i]
Swap(x, i, j) == [x EXCEPT ![i] = x[j], ![j] = x[i]]

\* j = int(random() * i)
RandomIndexBelow(draw, i) == (draw * i) \div RngStates

\* j = int(random() * (i + 1)), the draw being random() * RngStates
RandomIndex(draw, i) == (draw * (i + 1)) \div RngStates

RECURSIVE ShuffleFrom(_, _, _)
\* The loop of random.shuffle from index i downwards; the draw used at index i
\* is the (len(x) - i)-th.
ShuffleFrom(x, i, draws) ==
    IF i < 1 THEN x
    ELSE ShuffleFrom(Swap(x, i, RandomIndex(draws[Cardinality(DOMAIN x) - i], i)),
                     i - 1, draws)

\* random.shuffle(x, random) with the values random() returns
RandomShuffle(x, draws) == ShuffleFrom(x, Cardinality(DOMAIN x) - 1, draws)

\* The number of random() calls random.shuffle makes on a dict of the given size
DrawCount(size) == IF size > 1 THEN size - 1 ELSE 0

\* A construction that shuffles whatever the algorithm.
BuildMappingAlwaysShuffle(size, algorithm, r) ==
    {[mapping |-> RandomShuffle(IdentityMapping(size), draws),
      rng |-> RngAfter(r, DrawCount(size))] : draws \in RngDraws(r, DrawCount(size))}

\* The mappings a construction can build, each with the generator it leaves.
BuildMapping(size, algorithm, r) ==
    IF algorithm = SHUFFLE_RANDOM
    THEN {[mapping |-> RandomShuffle(IdentityMapping(size), draws),
           rng |-> RngAfter(r, DrawCount(size))] : draws \in RngDraws(r, DrawCount(size))}
    ELSE {[mapping |-> IdentityMapping(size), rng |-> r]}

NoView ==
    [live |-> FALSE, key |-> 0, mapping |-> <<>>, algorithm |-> 0,
     seeded |-> FALSE, seed |-> 0]

\* algorithm, seeded and seed record how the view was constructed; the object
\* itself keeps only the key and the mapping.
NewView(key, built, algorithm, r) ==
    [live |-> TRUE, key |-> key, mapping |-> built.mapping, algorithm |-> algorithm,
     seeded |-> algorithm = SHUFFLE_RANDOM /\ r.fresh,
     seed |-> IF algorithm = SHUFFLE_RANDOM /\ r.fresh THEN r.seed ELSE 0]

\* A construction whose dict is one object shared by every Shuffle (a class
\* attribute): building it anew rewrites the mapping of the views that exist.
CreateSharedMapping(view, key, algorithm) ==
    /\ ~views[view].live
    /\ IF key \notin KeyIds \/ algorithm \notin {SHUFFLE_NONE, SHUFFLE_RANDOM}
       THEN /\ result' = Raise("__init__", "AssertionError")
            /\ UNCHANGED <<keys, views, rng>>
       ELSE \E built \in BuildMapping(keys[key].size, algorithm, rng) :
                /\ views' = [other \in ViewIds |->
                                 IF other = view
                                 THEN NewView(key, built, algorithm, rng)
                                 ELSE IF views[other].live
                                      THEN [views[other] EXCEPT !.mapping = built.mapping]
                                      ELSE views[other]]
                /\ rng' = built.rng
                /\ result' = ReturnNone("__init__")
                /\ UNCHANGED keys

Create(view, key, algorithm) ==
    /\ ~views[view].live
    /\ IF key \notin KeyIds \/ algorithm \notin {SHUFFLE_NONE, SHUFFLE_RANDOM}
       THEN /\ result' = Raise("__init__", "AssertionError")
            /\ UNCHANGED <<keys, views, rng>>
       ELSE \E built \in BuildMapping(keys[key].size, algorithm, rng) :
                /\ views' = [views EXCEPT ![view] = NewView(key, built, algorithm, rng)]
                /\ rng' = built.rng
                /\ result' = ReturnNone("__init__")
                /\ UNCHANGED keys

\* The caller drops its reference to the view.
Discard(view) ==
    /\ views[view].live
    /\ views' = [views EXCEPT ![view] = NoView]
    /\ UNCHANGED <<keys, rng, result>>

(***************************************************************************)
(* Shuffle.set_random_seed: seed is an int, or None (here: no seed) for a  *)
(* generator seeded from system entropy.                                   *)
(***************************************************************************)
SetRandomSeed(seed) ==
    /\ rng' \in SeededRng(seed)
    /\ result' = ReturnNone("set_random_seed")
    /\ UNCHANGED <<keys, views>>

SetRandomSeedNone ==
    /\ rng' = EntropyRng
    /\ result' = ReturnNone("set_random_seed")
    /\ UNCHANGED <<keys, views>>

(***************************************************************************)
(* Accessors.  Each call is a function of the state: what it hands back,   *)
(* and for the writers the keys it leaves.                                 *)
(***************************************************************************)
\* Shuffle.size
SizeCall(view) == ReturnInt("size", keys[views[view].key].size)

\* index in self._shuffle_index_to_key_index
InMapping(view, index) == index \in DOMAIN views[view].mapping

\* An access that uses the shuffle index as the key index.
KeyIndexNoTranslation(view, index) == index

\* key_index = self._shuffle_index_to_key_index[index]
KeyIndex(view, index) == views[view].mapping[index]

\* A get_bit that reads the key at the shuffle index itself.
GetBitCallNoTranslation(view, index) ==
    IF ~InMapping(view, index) THEN Raise("get_bit", "AssertionError")
    ELSE ReturnInt("get_bit", KeyGetBit(keys[views[view].key], index))

\* Shuffle.get_bit
GetBitCall(view, index) ==
    IF ~InMapping(view, index) THEN Raise("get_bit", "AssertionError")
    ELSE ReturnInt("get_bit", KeyGetBit(keys[views[view].key], KeyIndex(view, index)))

\* Shuffle.get_key_index
GetKeyIndexCall(view, shuffle_index) ==
    IF ~InMapping(view, shuffle_index) THEN Raise("get_key_index", "AssertionError")
    ELSE ReturnInt("get_key_index", views[view].mapping[shuffle_index])

\* A set_bit that writes the key at the shuffle index itself.
SetBitCallNoTranslation(view, index, value) ==
    IF ~InMapping(view, index) \/ value \notin {0, 1}
    THEN [result |-> Raise("set_bit", "AssertionError"), keys |-> keys]
    ELSE [result |-> ReturnNone("set_bit"),
          keys |-> [keys EXCEPT ![views[view].key] = KeySetBit(@, index, value)]]

\* Shuffle.set_bit
SetBitCall(view, index, value) ==
    IF ~InMapping(view, index) \/ value \notin {0, 1}
    THEN [result |-> Raise("set_bit", "AssertionError"), keys |-> keys]
    ELSE [result |-> ReturnNone("set_bit"),
          keys |-> [keys EXCEPT ![views[view].key] =
                        KeySetBit(@, KeyIndex(view, index), value)]]

\* A flip_bit that returns without a word when the index is out of range.
FlipBitCallSilent(view, index) ==
    IF ~(0 <= index /\ index < SizeCall(view).int)
    THEN [result |-> ReturnNone("flip_bit"), keys |-> keys]
    ELSE [result |-> ReturnNone("flip_bit"),
          keys |-> [keys EXCEPT ![views[view].key] =
                        KeyFlipBit(@, KeyIndex(view, index))]]

\* A flip_bit that flips the key at the shuffle index itself.
FlipBitCallNoTranslation(view, index) ==
    IF ~(0 <= index /\ index < SizeCall(view).int)
    THEN [result |-> Raise("flip_bit", "AssertionError"), keys |-> keys]
    ELSE [result |-> ReturnNone("flip_bit"),
          keys |-> [keys EXCEPT ![views[view].key] = KeyFlipBit(@, index)]]

\* Shuffle.flip_bit
FlipBitCall(view, index) ==
    IF ~(0 <= index /\ index < SizeCall(view).int)
    THEN [result |-> Raise("flip_bit", "AssertionError"), keys |-> keys]
    ELSE [result |-> ReturnNone("flip_bit"),
          keys |-> [keys EXCEPT ![views[view].key] =
                        KeyFlipBit(@, KeyIndex(view, index))]]

RECURSIVE StrFrom(_, _)
\* Shuffle.__str__: the loop from shuffle index i on
StrFrom(view, i) ==
    IF i >= SizeCall(view).int THEN ""
    ELSE IntStr(GetBitCall(view, i).int) \o StrFrom(view, i + 1)

StrCall(view) == ReturnStr("__str__", StrFrom(view, 0))

RECURSIVE ReprFrom(_, _)
\* Shuffle.__repr__: the loop from shuffle index i on
ReprFrom(view, i) ==
    IF i >= SizeCall(view).int THEN ""
    ELSE LET key_index == views[view].mapping[i]
             key_bit == KeyGetBit(keys[views[view].key], key_index)
         IN  " " \o IntStr(i) \o "->" \o IntStr(key_index) \o "=" \o IntStr(key_bit)
                 \o ReprFrom(view, i + 1)

ReprCall(view) == ReturnStr("__repr__", "Shuffle:" \o ReprFrom(view, 0))

Size(view) ==
    /\ views[view].live
    /\ result' = SizeCall(view)
    /\ UNCHANGED <<keys, views, rng>>

GetBit(view, index) ==
    /\ views[view].live
    /\ result' = GetBitCall(view, index)
    /\ UNCHANGED <<keys, views, rng>>

GetKeyIndex(view, shuffle_index) ==
    /\ views[view].live
    /\ result' = GetKeyIndexCall(view, shuffle_index)
    /\ UNCHANGED <<keys, views, rng>>

SetBit(view, index, value) ==
    /\ views[view].live
    /\ result' = SetBitCall(view, index, value).result
    /\ keys' = SetBitCall(view, index, value).keys
    /\ UNCHANGED <<views, rng>>

FlipBit(view, index) ==
    /\ views[view].live
    /\ result' = FlipBitCall(view, index).result
    /\ keys' = FlipBitCall(view, index).keys
    /\ UNCHANGED <<views, rng>>

Str(view) ==
    /\ views[view].live
    /\ result' = StrCall(view)
    /\ UNCHANGED <<keys, views, rng>>

Repr(view) ==
    /\ views[view].live
    /\ result' = ReprCall(view)
    /\ UNCHANGED <<keys, views, rng>>

(***************************************************************************)
(* The driving protocol writes the key directly.                           *)
(***************************************************************************)
DirectSetBit(key, position, value) ==
    /\ position \in 0..(keys[key].size - 1)
    /\ value \in {0, 1}
    /\ keys' = [keys EXCEPT ![key] = KeySetBit(@, position, value)]
    /\ result' = ReturnNone("key.set_bit")
    /\ UNCHANGED <<views, rng>>

DirectFlipBit(key, position) ==
    /\ position \in 0..(keys[key].size - 1)
    /\ keys' = [keys EXCEPT ![key] = KeyFlipBit(@, position)]
    /\ result' = ReturnNone("key.flip_bit")
    /\ UNCHANGED <<views, rng>>

Init ==
    /\ keys \in [KeyIds -> KeyValues]
    /\ views = [view \in ViewIds |-> NoView]
    /\ rng = EntropyRng
    /\ result = ReturnNone("")

Next ==
    \/ \E view \in ViewIds, key \in KeyArgs, algorithm \in AlgorithmArgs :
           Create(view, key, algorithm)
    \/ \E view \in ViewIds : Discard(view)
    \/ \E seed \in Seeds : SetRandomSeed(seed)
    \/ SetRandomSeedNone
    \/ \E view \in ViewIds : Size(view)
    \/ \E view \in ViewIds, index \in IndexArgs : GetBit(view, index)
    \/ \E view \in ViewIds, index \in IndexArgs : GetKeyIndex(view, index)
    \/ \E view \in ViewIds, index \in IndexArgs, value \in ValueArgs :
           SetBit(view, index, value)
    \/ \E view \in ViewIds, index \in IndexArgs : FlipBit(view, index)
    \/ \E view \in ViewIds : Str(view)
    \/ \E view \in ViewIds : Repr(view)
    \/ \E key \in KeyIds, position \in 0..(MaxSize - 1), value \in {0, 1} :
           DirectSetBit(key, position, value)
    \/ \E key \in KeyIds, position \in 0..(MaxSize - 1) : DirectFlipBit(key, position)

Spec == Init /\ [][Next]_vars

(***************************************************************************)
(* Properties.                                                             *)
(***************************************************************************)
Live == {view \in ViewIds : views[view].live}

\* The valid shuffle indexes of a view: [0, size).
Indexes(view) == 0..(SizeCall(view).int - 1)

\* The key position get_key_index reports for a valid shuffle index.
KeyPositionOf(view, index) == GetKeyIndexCall(view, index).int

\* A call handed back an exception.
IsRaise(r) == r.kind \notin {"none", "int", "str"}

PermutationsOf(n) ==
    {f \in [0..(n - 1) -> 0..(n - 1)] : \A i, j \in 0..(n - 1) : f[i] = f[j] => i = j}

\* C1 (bijectivity): in every reachable state, for every view, get_key_index
\* answers every index in [0, size) and its answers are exactly the key
\* positions 0..size-1, each once.
C1_Bijectivity ==
    \A view \in Live :
        /\ \A i \in Indexes(view) : GetKeyIndexCall(view, i).kind = "int"
        /\ {KeyPositionOf(view, i) : i \in Indexes(view)} = Indexes(view)
        /\ \A i, j \in Indexes(view) :
               KeyPositionOf(view, i) = KeyPositionOf(view, j) => i = j

\* A randomly shuffled view of the largest size, not the identity, after a flip_bit
\* through it succeeded.
C1_Witness ==
    /\ result = ReturnNone("flip_bit")
    /\ \E view \in Live :
           /\ views[view].algorithm = SHUFFLE_RANDOM
           /\ SizeCall(view).int = MaxSize
           /\ \E i \in Indexes(view) : KeyPositionOf(view, i) # i

BitChanged(key, position) == keys'[key].bits[position] # keys[key].bits[position]

\* The step is a successful set_bit or flip_bit through a view of the key, at a
\* shuffle index that get_key_index maps to the position.
WriteThroughView(key, position) ==
    \E view \in Live : \E index \in Indexes(view) :
        /\ views[view].key = key
        /\ KeyPositionOf(view, index) = position
        /\ (\E value \in {0, 1} : SetBit(view, index, value)) \/ FlipBit(view, index)
        /\ ~IsRaise(result')

\* The step is a write of the position by the protocol, on the key itself.
DirectWrite(key, position) ==
    (\E value \in {0, 1} : DirectSetBit(key, position, value))
        \/ DirectFlipBit(key, position)

\* C2 (non-interference): a step that changes the keys changes one bit of one
\* key and no size, and it is a successful set_bit(i, v) or flip_bit(i) on a view
\* of that key with get_key_index(i) the changed position (or a write the
\* protocol made on the key itself); so a failing call and every other operation
\* (construction, size, get_bit, get_key_index, __str__, __repr__,
\* set_random_seed) leave every key bit as it is.
C2_NonInterference ==
    [][keys' # keys
       => /\ \A key \in KeyIds : keys'[key].size = keys[key].size
          /\ \E key \in KeyIds : \E position \in 0..(keys[key].size - 1) :
                 /\ BitChanged(key, position)
                 /\ \A other \in KeyIds : \A p \in 0..(keys[other].size - 1) :
                        BitChanged(other, p) => other = key /\ p = position
                 /\ WriteThroughView(key, position) \/ DirectWrite(key, position)]_vars

\* A set_bit through a shuffled view has just changed the bit it addresses, which
\* lies at another key position than the shuffle index.
C2_Witness ==
    /\ result = ReturnNone("set_bit")
    /\ \E view \in Live : \E i \in Indexes(view) :
           /\ KeyPositionOf(view, i) # i
           /\ keys[views[view].key].bits[KeyPositionOf(view, i)] = 1
           /\ keys[views[view].key].bits[i] = 0

\* C3 (reproducibility): two SHUFFLE_RANDOM views, each constructed from the
\* generator as set_random_seed(s) left it, with the same s, over keys of equal
\* size, have the same mapping.
C3_Reproducibility ==
    \A v, w \in Live :
        (/\ views[v].seeded /\ views[w].seeded
         /\ views[v].seed = views[w].seed
         /\ SizeCall(v).int = SizeCall(w).int)
        => \A i \in IndexArgs : GetKeyIndexCall(v, i) = GetKeyIndexCall(w, i)

\* Two views of the largest size built after seeding with the same seed, shuffled
\* (not the identity), while another seed gives another mapping.
C3_Witness ==
    /\ ~rng.fresh
    /\ \E v, w \in Live :
           /\ v # w
           /\ views[v].seeded /\ views[w].seeded
           /\ views[v].seed = views[w].seed
           /\ SizeCall(v).int = MaxSize
           /\ \E i \in Indexes(v) : KeyPositionOf(v, i) # i

\* The index is outside [0, size).
OutOfRange(view, index) == index < 0 \/ index >= SizeCall(view).int

\* Every call with an index outside [0, size), and every set_bit with a value
\* other than 0 or 1, hands back an exception.
BadCallsRaise ==
    \A view \in Live : \A index \in IndexArgs :
        /\ OutOfRange(view, index)
           => /\ IsRaise(GetBitCall(view, index))
              /\ IsRaise(GetKeyIndexCall(view, index))
              /\ IsRaise(FlipBitCall(view, index).result)
        /\ \A value \in ValueArgs :
               (OutOfRange(view, index) \/ value \notin {0, 1})
               => IsRaise(SetBitCall(view, index, value).result)

\* The step is a call with an index outside [0, size), or a set_bit with a value
\* other than 0 or 1.
BadCall ==
    \E view \in Live : \E index \in IndexArgs :
        \/ /\ OutOfRange(view, index)
           /\ GetBit(view, index) \/ GetKeyIndex(view, index) \/ FlipBit(view, index)
        \/ \E value \in ValueArgs :
               /\ OutOfRange(view, index) \/ value \notin {0, 1}
               /\ SetBit(view, index, value)

\* C4 (range checking, no partial failure): get_bit, set_bit, flip_bit and
\* get_key_index with an index < 0 or >= size, and set_bit with a value other
\* than 0 or 1, hand an exception back to the caller of that call; and a step
\* that hands back an exception and changes a key or a view is no such call, so
\* that such a call leaves every key bit and every mapping as it is.
C4_RangeChecking ==
    /\ []BadCallsRaise
    /\ [][(IsRaise(result') /\ (keys' # keys \/ views' # views)) => ~BadCall]_vars

\* A set_bit on a view of the largest size has just failed, the key holding a 1.
C4_Witness ==
    /\ IsRaise(result) /\ result.op = "set_bit"
    /\ \E view \in Live :
           /\ SizeCall(view).int = MaxSize
           /\ \E position \in Indexes(view) : keys[views[view].key].bits[position] = 1

\* set_bit(i, v) with i in [0, size) and v in {0, 1} succeeds.
GoodSetBitReturns ==
    \A view \in Live : \A index \in Indexes(view) : \A value \in {0, 1} :
        SetBitCall(view, index, value).result = ReturnNone("set_bit")

\* C5 (address transparency): set_bit(i, v) with i in [0, size) and v in {0, 1}
\* succeeds, and right after it get_bit(i) on the same view returns v.
C5_AddressTransparency ==
    /\ []GoodSetBitReturns
    /\ [][result' = ReturnNone("set_bit")
          => \A view \in Live : \A index \in Indexes(view) : \A value \in {0, 1} :
                 SetBit(view, index, value)
                 => GetBitCall(view, index)' = ReturnInt("get_bit", value)]_vars

\* A get_bit through a shuffled view returned the 1 that a set_bit wrote, at a
\* key position that is not the shuffle index.
C5_Witness ==
    /\ result = ReturnInt("get_bit", 1)
    /\ \E view \in Live : \E i \in Indexes(view) :
           /\ views[view].algorithm = SHUFFLE_RANDOM
           /\ KeyPositionOf(view, i) # i
           /\ GetBitCall(view, i) = ReturnInt("get_bit", 1)
           /\ keys[views[view].key].bits[i] = 0

\* flip_bit(i) with i in [0, size) succeeds.
GoodFlipBitReturns ==
    \A view \in Live : \A index \in Indexes(view) :
        FlipBitCall(view, index).result = ReturnNone("flip_bit")

\* C6 (flip involution): flip_bit(i) with i in [0, size) succeeds and inverts the
\* bit get_bit(i) reads, and a second flip_bit(i) right after it leaves the keys
\* exactly as they were before the first.
C6_FlipInvolution ==
    /\ []GoodFlipBitReturns
    /\ [][result' = ReturnNone("flip_bit")
          => \A view \in Live : \A index \in Indexes(view) :
                 FlipBit(view, index)
                 => /\ GetBitCall(view, index)'
                           = ReturnInt("get_bit", 1 - GetBitCall(view, index).int)
                    /\ FlipBitCall(view, index)'.keys = keys]_vars

\* A flip_bit through a shuffled view has just turned a 0 into a 1 at a key
\* position that is not the shuffle index.
C6_Witness ==
    /\ result = ReturnNone("flip_bit")
    /\ \E view \in Live : \E i \in Indexes(view) :
           /\ KeyPositionOf(view, i) # i
           /\ GetBitCall(view, i) = ReturnInt("get_bit", 1)
           /\ keys[views[view].key].bits[i] = 0
           /\ SizeCall(view).int = MaxSize

RECURSIVE KeyBitsFrom(_, _)
\* The bits of a key in key order, from a position on, as a string.
KeyBitsFrom(key, position) ==
    IF position >= key.size THEN ""
    ELSE IntStr(key.bits[position]) \o KeyBitsFrom(key, position + 1)

\* C7 (identity policy): a view constructed with SHUFFLE_NONE maps every index in
\* [0, size) to itself, whatever the generator's state; get_bit(i) is the key's
\* bit i and __str__ is the key's bits in key order.
C7_IdentityPolicy ==
    \A view \in Live :
        views[view].algorithm = SHUFFLE_NONE
        => /\ \A i \in Indexes(view) :
                  /\ GetKeyIndexCall(view, i) = ReturnInt("get_key_index", i)
                  /\ GetBitCall(view, i)
                         = ReturnInt("get_bit", keys[views[view].key].bits[i])
           /\ StrCall(view) = ReturnStr("__str__", KeyBitsFrom(keys[views[view].key], 0))

\* An identity view of the largest size, constructed from a seeded generator that
\* has produced draws, was rendered by __str__ after flip_bit(0) cleared bit 0
\* of a key whose other bits are 1.
C7_Witness ==
    /\ ~rng.entropy /\ ~rng.fresh
    /\ \E view \in Live :
           /\ views[view].algorithm = SHUFFLE_NONE
           /\ SizeCall(view).int = MaxSize
           /\ keys[views[view].key].bits[0] = 0
           /\ \A i \in Indexes(view) : i > 0 => keys[views[view].key].bits[i] = 1
           /\ result = StrCall(view)

\* What get_key_index answers is a function of the view's mapping alone.
KeyIndexFromMapping ==
    \A view \in Live : \A i \in IndexArgs :
        GetKeyIndexCall(view, i)
            = IF i \in DOMAIN views[view].mapping
              THEN ReturnInt("get_key_index", views[view].mapping[i])
              ELSE Raise("get_key_index", "AssertionError")

\* C8 (mapping fixed at construction): what get_key_index answers is read from
\* the view's mapping, and no step (an accessor or a write on this or another
\* view, a construction, set_random_seed) changes the mapping of a view that
\* exists before and after the step.
C8_MappingFixed ==
    /\ []KeyIndexFromMapping
    /\ [][\A view \in Live :
              views'[view].live => views'[view].mapping = views[view].mapping]_vars

\* A shuffled view exists, the generator has been reseeded since and a second
\* shuffled view with another mapping was constructed from it.
C8_Witness ==
    /\ result = ReturnNone("__init__")
    /\ \E v, w \in Live :
           /\ views[v].algorithm = SHUFFLE_RANDOM /\ ~views[v].seeded
           /\ views[w].algorithm = SHUFFLE_RANDOM /\ views[w].seeded
           /\ views[v].mapping # views[w].mapping

\* Two views of one key read the same bit wherever they address the same key
\* position.
ViewsAgree ==
    \A a, b \in Live :
        views[a].key = views[b].key
        => \A i \in Indexes(a) : \A j \in Indexes(b) :
               KeyPositionOf(a, i) = KeyPositionOf(b, j)
               => GetBitCall(a, i) = GetBitCall(b, j)

\* The step is a call on the view, its construction or its end.
CallOn(view) ==
    \/ Size(view) \/ Str(view) \/ Repr(view) \/ Discard(view)
    \/ \E index \in IndexArgs :
           \/ GetBit(view, index) \/ GetKeyIndex(view, index) \/ FlipBit(view, index)
           \/ \E value \in ValueArgs : SetBit(view, index, value)
    \/ \E key \in KeyArgs, algorithm \in AlgorithmArgs : Create(view, key, algorithm)

\* C9 (coexisting views): in every reachable state two views of the same key
\* read the same bit wherever get_key_index gives them the same key position;
\* and a step that changes a view (its mapping, its key) or its size is no call
\* on another view.
C9_CoexistingViews ==
    /\ []ViewsAgree
    /\ [][\A b \in Live :
              (views'[b] # views[b] \/ SizeCall(b)' # SizeCall(b))
              => ~(\E a \in ViewIds \ {b} : CallOn(a))]_vars

\* Two views of the largest size with different mappings over one key, after a
\* write through one of them and with bits that differ.
C9_Witness ==
    /\ result.op \in {"set_bit", "flip_bit"} /\ ~IsRaise(result)
    /\ \E a, b \in Live :
           /\ views[a].key = views[b].key
           /\ views[a].mapping # views[b].mapping
           /\ SizeCall(a).int = MaxSize
           /\ GetBitCall(a, 0) # GetBitCall(b, 0)

\* The mappings random.shuffle can make of the identity mapping of a size, over
\* all the values random() can return.
ShuffleResults(size) ==
    {RandomShuffle(IdentityMapping(size), draws) :
        draws \in [1..DrawCount(size) -> 0..(RngStates - 1)]}

\* C10 (permutation coverage): the mapping of a SHUFFLE_RANDOM view is a shuffle
\* of the identity mapping, and for the size of every key every ordering of its
\* positions is the result of the shuffle for some sequence of draws.
C10_PermutationCoverage ==
    /\ \A view \in Live :
           views[view].algorithm = SHUFFLE_RANDOM
           => views[view].mapping \in ShuffleResults(SizeCall(view).int)
    /\ \A key \in KeyIds : ShuffleResults(keys[key].size) = PermutationsOf(keys[key].size)

\* Two SHUFFLE_RANDOM views of the largest size have just been constructed, one
\* left as the identity and one not.
C10_Witness ==
    /\ result = ReturnNone("__init__")
    /\ \E v, w \in Live :
           /\ views[v].algorithm = SHUFFLE_RANDOM /\ views[w].algorithm = SHUFFLE_RANDOM
           /\ SizeCall(v).int = MaxSize
           /\ views[v].mapping = IdentityMapping(MaxSize)
           /\ views[w].mapping # IdentityMapping(MaxSize)

====
